---------------------------- MODULE Spec2Model ----------------------------
(***************************************************************************)
(* Model of augur/util/inspect_without_import.py:                          *)
(* get_phase_names_without_import reads a Python source file as text,      *)
(* parses it with ast.parse, walks the tree with ast.walk (a breadth-first *)
(* traversal) and collects the names of the FunctionDef / AsyncFunctionDef *)
(* nodes whose name ends with "_phase".                                    *)
(*                                                                         *)
(* Strings that the code inspects character by character (identifiers)     *)
(* are sequences of one-character strings, so that str.endswith is         *)
(* computed and not assumed.                                               *)
(***************************************************************************)
EXTENDS Naturals, Sequences, FiniteSets

\* ------------------------------------------------------------------ bounds

\* Longest source document, in logical lines.
MaxLines == 3

\* Longest source document in the runs with two concurrent calls.
MaxConcLines == 1

\* Indentation columns a logical line may start at.
Indents == {0, 1, 2}

\* The calls that may be in progress at once.
Callers == {"c1", "c2"}

\* ------------------------------------------------------------- identifiers

\* The literal suffix of line 62: '_phase'.
PhaseSuffix == <<"_", "p", "h", "a", "s", "e">>

a_phase == <<"a">> \o PhaseSuffix

b_phase == <<"b">> \o PhaseSuffix

\* '_phase' occurs before the end of the identifier.
a_phase_r == a_phase \o <<"_", "r">>

\* Nodes without an identifier (Module, Assign).
NoName == <<>>

\* Variant of EndsWith: the suffix anywhere in the string ('_phase' in name).
EndsWithAnywhere(s, suffix) ==
    \E i \in 1..Len(s) : \E j \in i..Len(s) : SubSeq(s, i, j) = suffix

\* str.endswith(suffix)
EndsWith(s, suffix) ==
    /\ Len(s) >= Len(suffix)
    /\ SubSeq(s, Len(s) - Len(suffix) + 1, Len(s)) = suffix

\* ------------------------------------------------------- source documents

\* The statements a logical line may hold. A compound statement (def,
\* async def, class) owns the deeper-indented lines that follow it; when
\* none follows, its body is the one-line body `pass`.
Stmts ==
    { [kind |-> "FunctionDef",      name |-> a_phase],
      [kind |-> "FunctionDef",      name |-> b_phase],
      [kind |-> "FunctionDef",      name |-> a_phase_r],
      [kind |-> "AsyncFunctionDef", name |-> b_phase],
      [kind |-> "ClassDef",         name |-> a_phase],
      [kind |-> "Assign",           name |-> b_phase] }

CompoundKinds == {"FunctionDef", "AsyncFunctionDef", "ClassDef"}

Lines == [indent : Indents, stmt : Stmts]

TextsUpTo(n) == UNION { [1..k -> Lines] : k \in 0..n }

Texts == TextsUpTo(MaxLines)

\* ----------------------------------------------------------------- parser

\* ast.parse. The tree is the sequence of its nodes in source order; each
\* node records its kind, its identifier (FunctionDef.name, ClassDef.name,
\* Name.id), the index of its parent and its depth. Node 1 is the Module.
\* Nodes that carry no identifier and hold no statements (arguments, Pass,
\* Constant, Store) are left out. Indentation is tracked as the tokenizer
\* does, with a stack of open columns.
ModuleNode == [kind |-> "Module", name |-> NoName, parent |-> 0, depth |-> 0]

ParseStart ==
    [nodes |-> <<ModuleNode>>, cols |-> <<0>>, open |-> <<1>>, last |-> 0,
     error |-> "", lineno |-> 0]

Last(s) == s[Len(s)]

Front(s) == SubSeq(s, 1, Len(s) - 1)

\* Levels of the column stack that stay open at column col.
RECURSIVE Dedent(_, _)
Dedent(cols, col) ==
    IF Len(cols) > 1 /\ Last(cols) > col THEN Dedent(Front(cols), col) ELSE cols

NodesOf(stmt, parent, depth, index) ==
    IF stmt.kind = "Assign"
    THEN << [kind |-> "Assign", name |-> NoName, parent |-> parent, depth |-> depth],
            [kind |-> "Name", name |-> stmt.name, parent |-> index, depth |-> depth + 1] >>
    ELSE << [kind |-> stmt.kind, name |-> stmt.name, parent |-> parent, depth |-> depth] >>

ParseLine(st, line, k) ==
    LET col  == line.indent
        top  == Last(st.cols)
        idx  == Len(st.nodes) + 1
    IN  IF col > top
        THEN IF st.last = 0 \/ st.nodes[st.last].kind \notin CompoundKinds
             THEN [st EXCEPT !.error = "unexpected indent", !.lineno = k]
             ELSE [st EXCEPT
                     !.nodes = @ \o NodesOf(line.stmt, st.last, Len(st.open) + 1, idx),
                     !.cols  = Append(@, col),
                     !.open  = Append(@, st.last),
                     !.last  = idx]
        ELSE LET cols == Dedent(st.cols, col)
                 open == SubSeq(st.open, 1, Len(cols))
             IN  IF Last(cols) # col
                 THEN [st EXCEPT
                         !.error = "unindent does not match any outer indentation level",
                         !.lineno = k]
                 ELSE [st EXCEPT
                         !.nodes = @ \o NodesOf(line.stmt, Last(open), Len(open), idx),
                         !.cols  = cols,
                         !.open  = open,
                         !.last  = idx]

RECURSIVE ParseFrom(_, _, _)
ParseFrom(text, k, st) ==
    IF k > Len(text) \/ st.error # "" THEN st
    ELSE ParseFrom(text, k + 1, ParseLine(st, text[k], k))

Parse(text) == ParseFrom(text, 1, ParseStart)

\* ------------------------------------------------------------- file system

\* The file the code reads when no path is given (lines 38-40).
DefaultPath == "augur/tasks/start_tasks.py"

OtherPath == "other.py"

Paths == {DefaultPath, OtherPath}

\* The omitted argument: source_path = None.
None == "None"

Missing == [kind |-> "missing", text |-> <<>>]

Directory == [kind |-> "directory", text |-> <<>>]

Denied == [kind |-> "denied", text |-> <<>>]

File(text) == [kind |-> "file", text |-> text]

Unreadable == {Directory, Denied}

EntriesUpTo(n) == {Missing} \cup Unreadable \cup { File(t) : t \in TextsUpTo(n) }

\* The file of test_handles_async_functions.
AsyncSample ==
    << [indent |-> 0, stmt |-> [kind |-> "AsyncFunctionDef", name |-> b_phase]],
       [indent |-> 0, stmt |-> [kind |-> "FunctionDef", name |-> a_phase]] >>

NoError == [type |-> "None"]

\* Path.read_text(encoding='utf-8'): the text, or the OSError the open raises.
read_text(entry, path) ==
    CASE entry.kind = "file" ->
           [ok |-> TRUE, text |-> entry.text, error |-> NoError]
      [] entry.kind = "missing" ->
           [ok |-> FALSE, text |-> <<>>,
            error |-> [type |-> "FileNotFoundError",
                       strerror |-> "No such file or directory", filename |-> path]]
      [] entry.kind = "directory" ->
           [ok |-> FALSE, text |-> <<>>,
            error |-> [type |-> "IsADirectoryError",
                       strerror |-> "Is a directory", filename |-> path]]
      [] entry.kind = "denied" ->
           [ok |-> FALSE, text |-> <<>>,
            error |-> [type |-> "PermissionError",
                       strerror |-> "Permission denied", filename |-> path]]

\* ---------------------------------------------------------------- outcomes

Pending == [kind |-> "pending"]

Returned(value) == [kind |-> "return", value |-> value]

\* An f-string: the literal text, then the formatted value.
Message(text, value) == [text |-> text, value |-> value]

\* raise type(msg) from cause
Raised(type, msg, cause) ==
    [kind |-> "raise", type |-> type, msg |-> msg, cause |-> cause]

\* An exception no except clause of the function catches leaves it as it is.
Propagated(error) == [kind |-> "raise", type |-> error.type, error |-> error]

\* Variant of ReadFailure: except OSError, so every read error is wrapped.
ReadFailureCatchesOSError(error, path) ==
    Raised("FileNotFoundError", Message("We couldn't find the source file at ", [str |-> path]), error)

\* Variant of ReadFailure: the new error is raised without `from e`.
ReadFailureUnchained(error, path) ==
    IF error.type = "FileNotFoundError"
    THEN Raised("FileNotFoundError", Message("We couldn't find the source file at ", [str |-> path]), NoError)
    ELSE Propagated(error)

\* Lines 42-47: try: read_text ... except FileNotFoundError as e: raise ... from e
ReadFailure(error, path) ==
    IF error.type = "FileNotFoundError"
    THEN Raised("FileNotFoundError", Message("We couldn't find the source file at ", [str |-> path]), error)
    ELSE Propagated(error)

\* The parser's diagnostic: IndentationError, a subclass of SyntaxError.
Diagnostic(st, path) ==
    [type |-> "IndentationError", msg |-> st.error, filename |-> path, lineno |-> st.lineno]

\* Variant of ParseFailure: the message leaves the diagnostic out.
ParseFailureDropsDetail(diag) ==
    Raised("SyntaxError",
           Message("The file exists, but it contains invalid Python syntax",
                   [diag EXCEPT !.msg = "", !.lineno = 0]),
           diag)

\* Lines 49-54: except SyntaxError as e: raise SyntaxError(f"...: {e}") from e
ParseFailure(diag) ==
    Raised("SyntaxError",
           Message("The file exists, but it contains invalid Python syntax: ", diag),
           diag)

\* ---------------------------------------------------------------- traversal

\* ast.iter_child_nodes: the children of node i, in field order.
RECURSIVE ChildrenFrom(_, _, _)
ChildrenFrom(nodes, i, j) ==
    IF j > Len(nodes) THEN <<>>
    ELSE (IF nodes[j].parent = i THEN <<j>> ELSE <<>>) \o ChildrenFrom(nodes, i, j + 1)

\* Variant of Children: the children last to first.
ChildrenReversed(nodes, i) ==
    LET cs == ChildrenFrom(nodes, i, 1)
    IN  [k \in 1..Len(cs) |-> cs[Len(cs) + 1 - k]]

\* ast.iter_child_nodes(node)
Children(nodes, i) == ChildrenFrom(nodes, i, 1)

\* Variant of IsFunctionLike: isinstance(node, ast.FunctionDef)
IsFunctionLikeSyncOnly(node) == node.kind = "FunctionDef"

\* Variant of IsFunctionLike: any node that carries an identifier.
IsFunctionLikeAnyNamed(node) == node.name # NoName

\* Line 60: isinstance(node, (ast.FunctionDef, ast.AsyncFunctionDef))
IsFunctionLike(node) == node.kind \in {"FunctionDef", "AsyncFunctionDef"}

\* Variant of Visit: a name already collected is not appended again.
VisitUnique(node, names) ==
    IF IsFunctionLike(node) /\ EndsWith(node.name, PhaseSuffix)
         /\ \A k \in 1..Len(names) : names[k] # node.name
    THEN Append(names, node.name)
    ELSE names

\* Variant of Visit: the name is appended twice.
VisitTwice(node, names) ==
    IF IsFunctionLike(node) /\ EndsWith(node.name, PhaseSuffix)
    THEN names \o <<node.name, node.name>>
    ELSE names

\* Lines 60-63: the loop body, on one node.
Visit(node, names) ==
    IF IsFunctionLike(node) /\ EndsWith(node.name, PhaseSuffix)
    THEN Append(names, node.name)
    ELSE names

\* ast.walk: todo = deque([tree]); node = todo.popleft();
\* todo.extend(iter_child_nodes(node)); yield node
\* Variant of NextTodo: the children go to the front of the deque, so the
\* traversal is depth-first.
NextTodoDepthFirst(nodes, todo) == Children(nodes, Head(todo)) \o Tail(todo)

NextTodo(nodes, todo) == Tail(todo) \o Children(nodes, Head(todo))

\* The nodes ast.walk yields from a deque, in the order it yields them.
RECURSIVE WalkOrderFrom(_, _)
WalkOrderFrom(nodes, todo) ==
    IF todo = <<>> THEN <<>>
    ELSE <<Head(todo)>> \o WalkOrderFrom(nodes, NextTodo(nodes, todo))

\* The whole loop of lines 59-63, from a deque and the names so far.
RECURSIVE WalkFrom(_, _, _)
WalkFrom(nodes, todo, names) ==
    IF todo = <<>> THEN names
    ELSE WalkFrom(nodes, NextTodo(nodes, todo), Visit(nodes[Head(todo)], names))

\* The function run from start to end on its own (lines 38-65).
RunAlone(files, path) ==
    LET r == read_text(files[path], path)
    IN  IF ~r.ok THEN ReadFailure(r.error, path)
        ELSE LET st == Parse(r.text)
             IN  IF st.error # "" THEN ParseFailure(Diagnostic(st, path))
                 ELSE Returned(WalkFrom(st.nodes, <<1>>, <<>>))

\* -------------------------------------------------------------------- state

VARIABLES
    fs,            \* path -> entry: the files on disk
    active,        \* the callers that make a call
    pc,            \* caller -> "idle", "read", "parse", "walk", "done"
    source_path,   \* caller -> the local source_path
    source_code,   \* caller -> the local source_code
    tree,          \* caller -> the local tree (its nodes)
    todo,          \* caller -> the deque of the caller's ast.walk generator
    phase_names,   \* caller -> the local phase_names
    bound,         \* caller -> the locals assigned so far
    outcome        \* caller -> how the call ended

vars == <<fs, active, pc, source_path, source_code, tree, todo, phase_names,
          bound, outcome>>

\* Variant of AssignLocal: the name is a module global, one for all calls.
AssignLocalShared(locals, c, value) == [d \in Callers |-> value]

\* Each call owns its locals: an assignment binds the caller's own name.
AssignLocal(locals, c, value) == [locals EXCEPT ![c] = value]

StartLocals ==
    /\ pc = [c \in Callers |-> "idle"]
    /\ source_path = [c \in Callers |-> None]
    /\ source_code = [c \in Callers |-> <<>>]
    /\ tree = [c \in Callers |-> <<>>]
    /\ todo = [c \in Callers |-> <<>>]
    /\ phase_names = [c \in Callers |-> <<>>]
    /\ bound = [c \in Callers |-> {}]
    /\ outcome = [c \in Callers |-> Pending]

\* One caller; the default file is any entry.
Init ==
    /\ \E e \in EntriesUpTo(MaxLines) :
          fs = [p \in Paths |-> IF p = DefaultPath THEN e ELSE Missing]
    /\ active = {"c1"}
    /\ StartLocals

\* Two callers; the other file is missing, unreadable or the async sample.
ConcInit ==
    /\ \E e \in EntriesUpTo(MaxConcLines), o \in {Missing, Denied, File(AsyncSample)} :
          fs = [p \in Paths |-> IF p = DefaultPath THEN e ELSE o]
    /\ active = Callers
    /\ StartLocals

\* Lines 38-40: the call, and the default path.
Call(c, arg) ==
    /\ c \in active
    /\ pc[c] = "idle"
    /\ source_path' = AssignLocal(source_path, c, IF arg = None THEN DefaultPath ELSE arg)
    /\ pc' = [pc EXCEPT ![c] = "read"]
    /\ UNCHANGED <<fs, active, source_code, tree, todo, phase_names, bound, outcome>>

\* Lines 42-47.
ReadSource(c) ==
    /\ pc[c] = "read"
    /\ LET r == read_text(fs[source_path[c]], source_path[c])
       IN  IF r.ok
           THEN /\ source_code' = AssignLocal(source_code, c, r.text)
                /\ bound' = [bound EXCEPT ![c] = @ \cup {"source_code"}]
                /\ pc' = [pc EXCEPT ![c] = "parse"]
                /\ UNCHANGED outcome
           ELSE /\ outcome' = [outcome EXCEPT ![c] = ReadFailure(r.error, source_path[c])]
                /\ pc' = [pc EXCEPT ![c] = "done"]
                /\ UNCHANGED <<source_code, bound>>
    /\ UNCHANGED <<fs, active, source_path, tree, todo, phase_names>>

\* Lines 49-56, and the start of ast.walk on line 59.
ParseSource(c) ==
    /\ pc[c] = "parse"
    /\ LET st == Parse(source_code[c])
       IN  IF st.error = ""
           THEN /\ tree' = AssignLocal(tree, c, st.nodes)
                /\ phase_names' = AssignLocal(phase_names, c, <<>>)
                /\ todo' = [todo EXCEPT ![c] = <<1>>]
                /\ bound' = [bound EXCEPT ![c] = @ \cup {"tree", "phase_names"}]
                /\ pc' = [pc EXCEPT ![c] = "walk"]
                /\ UNCHANGED outcome
           ELSE /\ outcome' = [outcome EXCEPT
                                 ![c] = ParseFailure(Diagnostic(st, source_path[c]))]
                /\ pc' = [pc EXCEPT ![c] = "done"]
                /\ UNCHANGED <<tree, phase_names, todo, bound>>
    /\ UNCHANGED <<fs, active, source_path, source_code>>

\* Lines 59-63: one iteration of the loop.
WalkStep(c) ==
    /\ pc[c] = "walk"
    /\ todo[c] # <<>>
    /\ phase_names' =
         AssignLocal(phase_names, c, Visit(tree[c][Head(todo[c])], phase_names[c]))
    /\ todo' = [todo EXCEPT ![c] = NextTodo(tree[c], todo[c])]
    /\ UNCHANGED <<fs, active, pc, source_path, source_code, tree, bound, outcome>>

\* Line 65, once the generator is exhausted.
Return(c) ==
    /\ pc[c] = "walk"
    /\ todo[c] = <<>>
    /\ outcome' = [outcome EXCEPT ![c] = Returned(phase_names[c])]
    /\ pc' = [pc EXCEPT ![c] = "done"]
    /\ UNCHANGED <<fs, active, source_path, source_code, tree, todo, phase_names, bound>>

Next ==
    \E c \in Callers :
        \/ \E arg \in Paths \cup {None} : Call(c, arg)
        \/ ReadSource(c)
        \/ ParseSource(c)
        \/ WalkStep(c)
        \/ Return(c)

Spec == Init /\ [][Next]_vars

SpecConc == ConcInit /\ [][Next]_vars

\* -------------------------------------------------------------- properties

Done(c) == pc[c] = "done"

\* The entry the call of c reads.
EntryOf(c) == fs[source_path[c]]

\* The call of c reads a readable, syntactically valid file.
ReadsValid(c) ==
    /\ source_path[c] \in Paths
    /\ EntryOf(c).kind = "file"
    /\ Parse(EntryOf(c).text).error = ""

\* The syntax tree of the file the call of c reads.
TreeOf(c) == Parse(EntryOf(c).text).nodes

Range(s) == { s[k] : k \in 1..Len(s) }

\* The identifier is some prefix followed by the literal '_phase'.
HasPhaseSuffix(name) ==
    \E k \in 0..Len(name) : SubSeq(name, k + 1, Len(name)) = PhaseSuffix

\* A function-like declaration, ordinary or asynchronous.
IsDeclaration(node) == node.kind = "FunctionDef" \/ node.kind = "AsyncFunctionDef"

\* The matching declarations of a tree: indices, in source order.
Matching(nodes) ==
    { i \in 1..Len(nodes) : IsDeclaration(nodes[i]) /\ HasPhaseSuffix(nodes[i].name) }

\* C1: for a readable, valid file the call returns a list, and a name is in
\* it if and only if the tree holds a function-like declaration (at any
\* depth) with that name and the name ends with '_phase'; a name that only
\* contains '_phase' before its end is never returned.
C1_ExactlyPhaseFunctions ==
    \A c \in Callers :
        (Done(c) /\ ReadsValid(c)) =>
            /\ outcome[c].kind = "return"
            /\ \A n \in Range(outcome[c].value) \cup { nd.name : nd \in Range(TreeOf(c)) } :
                   (n \in Range(outcome[c].value)) <=>
                       /\ HasPhaseSuffix(n)
                       /\ \E i \in 1..Len(TreeOf(c)) :
                              IsDeclaration(TreeOf(c)[i]) /\ TreeOf(c)[i].name = n
            /\ a_phase_r \notin Range(outcome[c].value)

\* A finished call on a file that declares a function with '_phase' inside
\* its name and a matching function nested two levels deep.
C1_Witness ==
    \E c \in Callers :
        /\ Done(c) /\ ReadsValid(c)
        /\ \E i \in 1..Len(TreeOf(c)) :
               IsDeclaration(TreeOf(c)[i]) /\ TreeOf(c)[i].name = a_phase_r
        /\ \E i \in Matching(TreeOf(c)) :
               TreeOf(c)[i].depth = 2 /\ TreeOf(c)[i].name \in Range(outcome[c].value)

\* The names of the nodes listed in order, one per index.
NamesAt(nodes, order) == [k \in 1..Len(order) |-> nodes[order[k]].name]

\* The indices of a set of nodes, smallest first: their source order.
RECURSIVE Ascending(_)
Ascending(S) ==
    IF S = {} THEN <<>>
    ELSE LET m == CHOOSE x \in S : \A y \in S : x <= y
         IN  <<m>> \o Ascending(S \ {m})

\* The matching declarations in the order the traversal yields them.
YieldedMatching(nodes) ==
    LET IsMatch(i) == i \in Matching(nodes)
    IN  SelectSeq(WalkOrderFrom(nodes, <<1>>), IsMatch)

\* C2 as stated: the returned list is the matching declarations in the order
\* of their declaration in the source text, at whatever depth they are.
C2_SourceOrder ==
    \A c \in Callers :
        (Done(c) /\ ReadsValid(c)) =>
            outcome[c].value = NamesAt(TreeOf(c), Ascending(Matching(TreeOf(c))))

\* C2, amended: the returned list names the matching declarations in the
\* order the traversal reaches them, and of two matching declarations at
\* the same depth of the tree the one declared earlier comes earlier.
C2_SourceOrderWithinDepth ==
    \A c \in Callers :
        (Done(c) /\ ReadsValid(c)) =>
            LET nodes == TreeOf(c)
                order == YieldedMatching(nodes)
            IN  /\ outcome[c].kind = "return"
                /\ outcome[c].value = NamesAt(nodes, order)
                /\ Range(order) = Matching(nodes)
                /\ \A i, j \in 1..Len(order) :
                       (i < j /\ nodes[order[i]].depth = nodes[order[j]].depth)
                           => order[i] < order[j]

\* A finished call on a file with two matching declarations at depth 1 and,
\* between them in the text, a matching declaration at depth 2.
C2_Witness ==
    \E c \in Callers :
        /\ Done(c) /\ ReadsValid(c)
        /\ Len(outcome[c].value) = 3
        /\ \E i, j, k \in Matching(TreeOf(c)) :
               /\ i < j /\ j < k
               /\ TreeOf(c)[i].depth = 1
               /\ TreeOf(c)[j].depth = 2
               /\ TreeOf(c)[k].depth = 1
               /\ TreeOf(c)[i].name # TreeOf(c)[k].name

NoDuplicates(s) == \A i, j \in 1..Len(s) : i # j => s[i] # s[j]

\* C3 as stated: no name occurs twice in the returned list.
C3_Distinct ==
    \A c \in Callers :
        (Done(c) /\ ReadsValid(c)) => NoDuplicates(outcome[c].value)

\* C3, amended: when no two matching declarations of the file share a name,
\* no name occurs twice in the returned list.
C3_DistinctWhenDeclaredOnce ==
    \A c \in Callers :
        (/\ Done(c) /\ ReadsValid(c)
         /\ \A i, j \in Matching(TreeOf(c)) :
                i # j => TreeOf(c)[i].name # TreeOf(c)[j].name)
            => /\ outcome[c].kind = "return"
               /\ NoDuplicates(outcome[c].value)

\* A finished call on a file with two matching declarations of different
\* names, both returned.
C3_Witness ==
    \E c \in Callers :
        /\ Done(c) /\ ReadsValid(c)
        /\ Cardinality(Matching(TreeOf(c))) = 2
        /\ \A i, j \in Matching(TreeOf(c)) :
               i # j => TreeOf(c)[i].name # TreeOf(c)[j].name
        /\ Range(outcome[c].value) = {a_phase, b_phase}

\* C4: every returned name is the name of a function-like declaration of
\* the tree; a name ending in '_phase' that only a class, an assignment
\* target or another non-function node carries is not returned.
C4_OnlyDeclarations ==
    \A c \in Callers :
        (Done(c) /\ ReadsValid(c)) =>
            /\ outcome[c].kind = "return"
            /\ \A k \in 1..Len(outcome[c].value) :
                   \E i \in 1..Len(TreeOf(c)) :
                       /\ IsDeclaration(TreeOf(c)[i])
                       /\ TreeOf(c)[i].name = outcome[c].value[k]
            /\ \A i \in 1..Len(TreeOf(c)) :
                   (/\ ~IsDeclaration(TreeOf(c)[i])
                    /\ \A j \in 1..Len(TreeOf(c)) :
                           IsDeclaration(TreeOf(c)[j])
                               => TreeOf(c)[j].name # TreeOf(c)[i].name)
                       => TreeOf(c)[i].name \notin Range(outcome[c].value)

\* A finished call on a file where an assignment target and a class carry
\* matching names no function declares, beside a matching function that is
\* returned.
C4_Witness ==
    \E c \in Callers :
        /\ Done(c) /\ ReadsValid(c)
        /\ \E i, j, k \in 1..Len(TreeOf(c)) :
               /\ TreeOf(c)[i].kind = "Name" /\ TreeOf(c)[i].name = b_phase
               /\ TreeOf(c)[j].kind = "ClassDef" /\ TreeOf(c)[j].name = a_phase
               /\ IsDeclaration(TreeOf(c)[k]) /\ TreeOf(c)[k].name = a_phase
        /\ outcome[c].value = <<a_phase>>

\* The text with the declarations on the lines of L changed between
\* ordinary and asynchronous, names and positions kept.
OtherKind(kind) ==
    CASE kind = "FunctionDef" -> "AsyncFunctionDef"
      [] kind = "AsyncFunctionDef" -> "FunctionDef"
      [] OTHER -> kind

SwapKinds(text, L) ==
    [k \in 1..Len(text) |->
        IF k \in L THEN [text[k] EXCEPT !.stmt.kind = OtherKind(@)] ELSE text[k]]

\* C5: changing the kind of any declarations between ordinary and
\* asynchronous leaves the outcome of the call unchanged, content and order.
C5_AsyncLikeOrdinary ==
    \A c \in Callers :
        (Done(c) /\ ReadsValid(c)) =>
            \A L \in SUBSET (1..Len(EntryOf(c).text)) :
                outcome[c] =
                    RunAlone([fs EXCEPT ![source_path[c]] =
                                 File(SwapKinds(EntryOf(c).text, L))],
                             source_path[c])

\* A finished call on a file with an asynchronous and an ordinary matching
\* declaration, both returned.
C5_Witness ==
    \E c \in Callers :
        /\ Done(c) /\ ReadsValid(c)
        /\ \E i, j \in Matching(TreeOf(c)) :
               /\ TreeOf(c)[i].kind = "AsyncFunctionDef"
               /\ TreeOf(c)[j].kind = "FunctionDef"
        /\ Len(outcome[c].value) >= 2

\* No line of the text declares a function whose name ends with '_phase'.
NoMatchingLine(text) ==
    \A k \in 1..Len(text) :
        IsDeclaration(text[k].stmt) => ~HasPhaseSuffix(text[k].stmt.name)

\* C6: a call on a readable, valid file without a matching declaration, the
\* empty file included, returns the empty list and raises nothing.
C6_EmptyWhenNoMatch ==
    \A c \in Callers :
        (Done(c) /\ ReadsValid(c) /\ NoMatchingLine(EntryOf(c).text)) =>
            outcome[c] = Returned(<<>>)

\* A finished call on the empty file.
C6_Witness ==
    \E c \in Callers :
        /\ Done(c)
        /\ EntryOf(c) = File(<<>>)
        /\ outcome[c] = Returned(<<>>)

\* C7: a call with a path that does not exist ends in a FileNotFoundError
\* that names the path and is chained to the error of the read; the text,
\* the tree and the list are never bound and nothing is returned.
C7_MissingPath ==
    \A c \in Callers :
        (Done(c) /\ EntryOf(c).kind = "missing") =>
            /\ outcome[c].kind = "raise"
            /\ outcome[c].type = "FileNotFoundError"
            /\ outcome[c].msg.value.str = source_path[c]
            /\ outcome[c].cause.type = "FileNotFoundError"
            /\ outcome[c].cause.filename = source_path[c]
            /\ bound[c] = {}

\* A finished call on a missing path given explicitly.
C7_Witness ==
    \E c \in Callers :
        /\ Done(c)
        /\ source_path[c] = OtherPath
        /\ EntryOf(c).kind = "missing"
        /\ outcome[c].kind = "raise"

\* C8 as stated: a call with a path that exists and cannot be read ends in
\* the FileNotFoundError of a missing path, carrying the path.
C8_UnreadableIsNotFound ==
    \A c \in Callers :
        (Done(c) /\ EntryOf(c) \in Unreadable) =>
            /\ outcome[c].kind = "raise"
            /\ outcome[c].type = "FileNotFoundError"

\* C8, amended: a call with a path that exists and cannot be read ends in
\* the error of the read itself (PermissionError, IsADirectoryError), not
\* wrapped, with the path as its filename; nothing is bound or returned.
C8_UnreadablePropagates ==
    \A c \in Callers :
        (Done(c) /\ EntryOf(c) \in Unreadable) =>
            /\ outcome[c].kind = "raise"
            /\ outcome[c].type =
                   (IF EntryOf(c) = Denied THEN "PermissionError" ELSE "IsADirectoryError")
            /\ DOMAIN outcome[c] = {"kind", "type", "error"}
            /\ outcome[c].error.filename = source_path[c]
            /\ bound[c] = {}

\* A finished call on a path without read permission.
C8_Witness ==
    \E c \in Callers :
        /\ Done(c)
        /\ EntryOf(c) = Denied
        /\ outcome[c].kind = "raise"

\* C9: a call on a readable file that does not parse ends in a SyntaxError
\* whose message holds the parser's diagnostic and which is chained to the
\* parser's error; the tree and the list are never bound and nothing is
\* returned, whatever the lines before the error declare.
C9_InvalidSyntax ==
    \A c \in Callers :
        (/\ Done(c)
         /\ EntryOf(c).kind = "file"
         /\ Parse(EntryOf(c).text).error # "") =>
            LET st == Parse(EntryOf(c).text)
            IN  /\ outcome[c].kind = "raise"
                /\ outcome[c].type = "SyntaxError"
                /\ outcome[c].msg.value.msg = st.error
                /\ outcome[c].msg.value.lineno = st.lineno
                /\ outcome[c].cause.type = "IndentationError"
                /\ outcome[c].cause.msg = st.error
                /\ outcome[c].cause.lineno = st.lineno
                /\ bound[c] = {"source_code"}
                /\ phase_names[c] = <<>>

\* A finished call on a file whose first line declares a matching function
\* and whose third line does not parse.
C9_Witness ==
    \E c \in Callers :
        /\ Done(c)
        /\ EntryOf(c).kind = "file"
        /\ Len(EntryOf(c).text) = 3
        /\ IsDeclaration(EntryOf(c).text[1].stmt)
        /\ HasPhaseSuffix(EntryOf(c).text[1].stmt.name)
        /\ Parse(EntryOf(c).text).lineno = 3
        /\ outcome[c].kind = "raise"

\* The locals of one call.
Locals(c) ==
    <<pc[c], source_path[c], source_code[c], tree[c], todo[c], phase_names[c],
      bound[c], outcome[c]>>

\* C10: in every interleaving of the steps of two calls each call ends with
\* the outcome it has when run alone, no step changes a file, and a step
\* changes the locals of one call only.
C10_NoInterference ==
    /\ [](\A c \in Callers : Done(c) => outcome[c] = RunAlone(fs, source_path[c]))
    /\ [][/\ fs' = fs
          /\ \E c \in Callers : \A d \in Callers \ {c} : Locals(d)' = Locals(d)]_vars

\* One call has returned its list while the other, on the same file, is in
\* the middle of its traversal with a name collected.
C10_Witness ==
    /\ pc["c1"] = "done"
    /\ outcome["c1"].kind = "return"
    /\ outcome["c1"].value # <<>>
    /\ pc["c2"] = "walk"
    /\ todo["c2"] # <<>>
    /\ phase_names["c2"] # <<>>
    /\ source_path["c1"] = source_path["c2"]

\* How often a name occurs in a list.
Occurrences(s, n) == Cardinality({ k \in 1..Len(s) : s[k] = n })

\* C11: the traversal reports each matching declaration once and removes no
\* duplicate: the returned list is as long as the tree has matching
\* declarations, and a name that k matching declarations carry occurs k
\* times in it.
C11_OncePerDeclaration ==
    \A c \in Callers :
        (Done(c) /\ ReadsValid(c)) =>
            /\ outcome[c].kind = "return"
            /\ Len(outcome[c].value) = Cardinality(Matching(TreeOf(c)))
            /\ \A n \in {a_phase, b_phase, a_phase_r} \cup Range(outcome[c].value) :
                   Occurrences(outcome[c].value, n) =
                       Cardinality({ i \in Matching(TreeOf(c)) : TreeOf(c)[i].name = n })

\* A finished call on a file that declares one matching name twice, once in
\* a nested scope, and has returned it twice.
C11_Witness ==
    \E c \in Callers :
        /\ Done(c) /\ ReadsValid(c)
        /\ \E i, j \in Matching(TreeOf(c)) :
               /\ i # j
               /\ TreeOf(c)[i].name = TreeOf(c)[j].name
               /\ TreeOf(c)[i].depth # TreeOf(c)[j].depth
               /\ Occurrences(outcome[c].value, TreeOf(c)[i].name) = 2

\* The matching declarations of depth d and deeper, shallowest depth first
\* and, within one depth, in source order.
RECURSIVE ByDepthFrom(_, _)
ByDepthFrom(nodes, d) ==
    IF \A i \in Matching(nodes) : nodes[i].depth < d THEN <<>>
    ELSE Ascending({ i \in Matching(nodes) : nodes[i].depth = d })
             \o ByDepthFrom(nodes, d + 1)

\* C12: the returned list is ordered by depth in the tree first and by
\* source position second: a matching declaration at a shallower depth
\* precedes every matching declaration at a deeper depth, also one that
\* stands earlier in the text, and declarations of one depth are in source
\* order.
C12_BreadthFirstOrder ==
    \A c \in Callers :
        (Done(c) /\ ReadsValid(c)) =>
            /\ outcome[c].kind = "return"
            /\ outcome[c].value = NamesAt(TreeOf(c), ByDepthFrom(TreeOf(c), 0))

\* A finished call on a file where a matching declaration at depth 2 stands
\* before a matching declaration of another name at depth 1, and the
\* shallower one has been returned first.
C12_Witness ==
    \E c \in Callers :
        /\ Done(c) /\ ReadsValid(c)
        /\ Cardinality(Matching(TreeOf(c))) = 2
        /\ \E i, j \in Matching(TreeOf(c)) :
               /\ i < j
               /\ TreeOf(c)[i].depth = 2
               /\ TreeOf(c)[j].depth = 1
               /\ TreeOf(c)[i].name # TreeOf(c)[j].name
               /\ outcome[c].value = <<TreeOf(c)[j].name, TreeOf(c)[i].name>>

=============================================================================
